---- MODULE Spec2Model ----
(***************************************************************************)
(* Model of art2d2/drawing_node.py: the DrawingNode waypoint follower.     *)
(*                                                                         *)
(* Number representation (the code computes with IEEE doubles):            *)
(*   angles      integers, unit 1e-4 rad   (pi = 31416, 0.03 rad = 300)    *)
(*   positions   integers, unit 1 mm       (0.3 m = 300, 0.03 m = 30)      *)
(*   directions  unit vectors scaled by 1000                               *)
(*   projected position error   unit 1e-6 m  (mm times the 1000 scale)     *)
(*   angular.z   unit 1e-5 rad/s  (k_p = 0.3 is the factor 3)              *)
(*   linear.x    unit 1e-7 m/s    (k_p = 0.2 is the factor 2)              *)
(* NaN is the double NaN that numpy's division by a zero norm produces.    *)
(***************************************************************************)
EXTENDS Integers, Sequences, FiniteSets, TLC

VARIABLES
    current_angle,     \* self.current_angle
    current_point,     \* self.current_point
    target_angle,      \* self.target_angle
    target_point,      \* self.target_point
    target_direction,  \* self.target_direction
    waypt_index,       \* self.waypt_index
    state,             \* self.state
    destroyed,         \* the node has been destroyed (destroy_node was called)
    cmd_vel,           \* the Twists published on cmd_vel by the latest tick, in order
    pose_target,       \* the PoseStampeds published on /pose_target, in order
    zero_pubs,         \* number of completion zero Twists published (line 155)
    pose_pc,           \* position of the executor inside pose_callback
    pose_msg,          \* the pose_msg argument of the running pose_callback
    move_pc,           \* position of the executor inside move
    delivered,         \* history: the last pose that pose_callback stored entirely
    tick_pose,         \* history: the pose read by the first pose read of the tick
    tick_consistent    \* history: every pose read of the tick saw one whole pose

vars == <<current_angle, current_point, target_angle, target_point,
          target_direction, waypt_index, state, destroyed, cmd_vel,
          pose_target, zero_pubs, pose_pc, pose_msg, move_pc, delivered,
          tick_pose, tick_consistent>>

----------------------------------------------------------------------------
(* Bounds of the model *)

\* Saturation value of the publication counter zero_pubs.
MaxCount == 3

Min(a, b) == IF a < b THEN a ELSE b

----------------------------------------------------------------------------
(* Numbers *)

NaN == -999999999

IsNaN(x) == x = NaN

Abs(x) == IF x < 0 THEN -x ELSE x

Sign(x) == IF x < 0 THEN -1 ELSE IF x > 0 THEN 1 ELSE 0

\* Floor of the square root of n, by bisection: lo * lo <= n < hi * hi
RECURSIVE SqrtBetween(_, _, _)
SqrtBetween(n, lo, hi) ==
    IF hi - lo <= 1 THEN lo
    ELSE LET mid == (lo + hi) \div 2
         IN  IF mid * mid <= n THEN SqrtBetween(n, mid, hi)
             ELSE SqrtBetween(n, lo, mid)

ISqrt(n) == SqrtBetween(n, 0, 32768)

\* np.linalg.norm of a 2-vector, in mm
norm(v) == ISqrt(v[1] * v[1] + v[2] * v[2])

\* arctan of y/x for 0 <= y <= x, x > 0: pi/4*r + 0.273*r*(1-r), r = y/x
\* (exact at r = 0 and r = 1, within 0.004 rad in between).
Atan01(y, x) ==
    LET r == (y * 1000) \div x
    IN  (7854 * r) \div 1000 + (2730 * r * (1000 - r)) \div 1000000

\* arctan2 in the first quadrant, x >= 0, y >= 0, not both 0
AtanQ1(y, x) == IF y <= x THEN Atan01(y, x) ELSE 15708 - Atan01(x, y)

\* np.arctan2(y, x); arctan2(0, 0) = 0
arctan2(y, x) ==
    IF x = 0 /\ y = 0 THEN 0
    ELSE IF x >= 0 /\ y >= 0 THEN AtanQ1(y, x)
    ELSE IF x < 0 /\ y >= 0 THEN 31416 - AtanQ1(y, -x)
    ELSE IF x >= 0 THEN -AtanQ1(-y, x)
    ELSE -(31416 - AtanQ1(-y, -x))

\* Variant of Normalize: the division by the norm is left out.
Normalize_raw(delta) == delta

\* delta / np.linalg.norm(delta): numpy divides by 0.0 without raising and
\* yields NaN in both components (0/0)
Normalize(delta) ==
    IF norm(delta) = 0 THEN <<NaN, NaN>>
    ELSE <<Sign(delta[1]) * ((Abs(delta[1]) * 1000) \div norm(delta)),
           Sign(delta[2]) * ((Abs(delta[2]) * 1000) \div norm(delta))>>

\* np.dot of two 2-vectors; a NaN component makes the result NaN
dot(u, v) ==
    IF IsNaN(u[1]) \/ IsNaN(u[2]) \/ IsNaN(v[1]) \/ IsNaN(v[2]) THEN NaN
    ELSE u[1] * v[1] + u[2] * v[2]

\* Variant of clip: the command is not clamped.
clip_none(x, lo, hi) == x

\* np.clip(x, lo, hi)
clip(x, lo, hi) == IF x < lo THEN lo ELSE IF x > hi THEN hi ELSE x

\* np.abs(x) < tol; every comparison with NaN is False
AbsLess(x, tol) == IF IsNaN(x) THEN FALSE ELSE Abs(x) < tol

\* k * x for a float x
Scale(k, x) == IF IsNaN(x) THEN NaN ELSE k * x

----------------------------------------------------------------------------
(* Program constants *)

\* waypoints, in mm
waypoints == << <<0, 300>>, <<300, 300>>, <<300, 0>>, <<0, 0>> >>

k_p_turn == 3
max_omega == 30000
k_p_drive == 2
angle_tolerance == 300
position_tolerance == 30000

\* Twist(): every field 0.0
Twist == [linear_x |-> 0, angular_z |-> 0]

----------------------------------------------------------------------------
(* Inputs: the poses the localization node may publish on /pose_estimate *)

\* yaw, as euler_from_quaternion returns it
Yaws == {0, 15408, 15409, 15708, -15708, 31416, -31415}

\* position
Positions == { <<0, 0>>, <<0, 270>>, <<0, 271>>, <<0, 300>>,
               <<300, 300>>, <<300, 0>> }

----------------------------------------------------------------------------
(* Executor *)

\* No message: the value of pose_msg and tick_pose outside their scope.
NoMsg == <<0, <<0, 0>>>>

\* Variant of CanStart: callbacks run on several threads, each callback
\* excluding only itself.
CanStart_threaded(own_pc, other_pc) == own_pc = "idle"

\* rclpy.spin(node) runs the callbacks of the node on the single thread of
\* the default executor: a callback starts only when none is running.
CanStart(own_pc, other_pc) == own_pc = "idle" /\ other_pc = "idle"

\* The timer and the subscription of a destroyed node deliver nothing.
TimerReady == ~destroyed

SubscriptionReady == ~destroyed

\* Variant of destroy_node: the node is not destroyed.
destroy_node_skipped == FALSE

\* self.destroy_node(): the value of destroyed afterwards
destroy_node == TRUE

----------------------------------------------------------------------------
(* Construction *)

\* Variant of Init: __init__ does not resolve the first target, which keeps
\* the class defaults of lines 13-16.
Init_unresolved ==
    /\ current_angle = 0
    /\ current_point = <<0, 0>>
    /\ waypt_index = 0
    /\ state = "turning"
    /\ target_point = <<0, 0>>
    /\ target_angle = 0
    /\ target_direction = <<1000, 0>>
    /\ destroyed = FALSE
    /\ cmd_vel = <<>>
    /\ pose_target = <<>>
    /\ zero_pubs = 0
    /\ pose_pc = "idle"
    /\ pose_msg = NoMsg
    /\ move_pc = "idle"
    /\ delivered = <<0, <<0, 0>>>>
    /\ tick_pose = NoMsg
    /\ tick_consistent = TRUE

\* DrawingNode class attributes (lines 12-24) and __init__ (lines 48-52):
\* the first target is resolved against the class default pose; nothing is
\* published.
Init ==
    /\ current_angle = 0
    /\ current_point = <<0, 0>>
    /\ waypt_index = 0
    /\ state = "turning"
    /\ target_point = waypoints[0 + 1]
    /\ LET delta == <<waypoints[0 + 1][1] - 0, waypoints[0 + 1][2] - 0>>
       IN  /\ target_angle = arctan2(delta[2], delta[1])
           /\ target_direction = Normalize(delta)
    /\ destroyed = FALSE
    /\ cmd_vel = <<>>
    /\ pose_target = <<>>
    /\ zero_pubs = 0
    /\ pose_pc = "idle"
    /\ pose_msg = NoMsg
    /\ move_pc = "idle"
    /\ delivered = <<0, <<0, 0>>>>
    /\ tick_pose = NoMsg
    /\ tick_consistent = TRUE

----------------------------------------------------------------------------
(* pose_callback *)

\* Lines 62-70: the message is taken and its yaw stored in current_angle.
pose_callback_begin ==
    /\ SubscriptionReady
    /\ CanStart(pose_pc, move_pc)
    /\ \E yaw \in Yaws, position \in Positions :
          /\ pose_msg' = <<yaw, position>>
          /\ current_angle' = yaw
    /\ pose_pc' = "l71"
    /\ UNCHANGED <<current_point, target_angle, target_point, target_direction,
                   waypt_index, state, destroyed, cmd_vel, pose_target,
                   zero_pubs, move_pc, delivered, tick_pose, tick_consistent>>

\* Variant of pose_callback_end: the target is resolved again against every
\* new position.
pose_callback_end_retarget ==
    /\ pose_pc = "l71"
    /\ current_point' = pose_msg[2]
    /\ LET delta == <<target_point[1] - pose_msg[2][1],
                      target_point[2] - pose_msg[2][2]>>
       IN  /\ target_angle' = arctan2(delta[2], delta[1])
           /\ target_direction' = Normalize(delta)
    /\ delivered' = <<current_angle, pose_msg[2]>>
    /\ pose_msg' = NoMsg
    /\ pose_pc' = "idle"
    /\ UNCHANGED <<current_angle, target_point,
                   waypt_index, state, destroyed, cmd_vel, pose_target,
                   zero_pubs, move_pc, tick_pose, tick_consistent>>

\* Line 71: the position of the message is stored in current_point.
pose_callback_end ==
    /\ pose_pc = "l71"
    /\ current_point' = pose_msg[2]
    /\ delivered' = <<current_angle, pose_msg[2]>>
    /\ pose_msg' = NoMsg
    /\ pose_pc' = "idle"
    /\ UNCHANGED <<current_angle, target_angle, target_point, target_direction,
                   waypt_index, state, destroyed, cmd_vel, pose_target,
                   zero_pubs, move_pc, tick_pose, tick_consistent>>

----------------------------------------------------------------------------
(* The controllers *)

\* Variant of angle_error_of: the error is wrapped to (-pi, pi].
angle_error_wrapped(target, current) ==
    LET d == target - current
    IN  IF d > 31416 THEN d - 62832
        ELSE IF d <= -31416 THEN d + 62832
        ELSE d

\* rotate_to_angle, line 91
angle_error_of(target, current) == target - current

\* rotate_to_angle, lines 93-98: the Twist it publishes
rotate_twist(target, current) ==
    [Twist EXCEPT !.angular_z =
        clip(k_p_turn * angle_error_of(target, current), -max_omega, max_omega)]

\* drive_to_point, lines 118-119
projected_position_error_of(target, current, direction) ==
    dot(<<target[1] - current[1], target[2] - current[2]>>, direction)

\* Variant of drive_twist: the driving command also steers toward the target.
drive_twist_steer(target, current, direction) ==
    [linear_x |->
        Scale(k_p_drive, projected_position_error_of(target, current, direction)),
     angular_z |->
        clip(k_p_turn * arctan2(target[2] - current[2], target[1] - current[1]),
             -max_omega, max_omega)]

\* drive_to_point, lines 120-122: the Twist it publishes
drive_twist(target, current, direction) ==
    [Twist EXCEPT !.linear_x =
        Scale(k_p_drive, projected_position_error_of(target, current, direction))]

\* Variant of turn_converged: the comparison is not strict.
turn_converged_le(err) == ~IsNaN(err) /\ Abs(err) <= angle_tolerance

\* move, line 138
turn_converged(err) == AbsLess(err, angle_tolerance)

\* Variant of drive_converged: the comparison is not strict.
drive_converged_le(err) == ~IsNaN(err) /\ Abs(err) <= position_tolerance

\* move, line 145
drive_converged(err) == AbsLess(err, position_tolerance)

\* Variant of has_next_waypoint: the last waypoint is never made the target.
has_next_waypoint_short(i) == i < Len(waypoints) - 2

\* move, line 146
has_next_waypoint(i) == i < Len(waypoints) - 1

\* Variant of next_index: the cursor skips a waypoint.
next_index_skip(i) == i + 2

\* move, line 148
next_index(i) == i + 1

----------------------------------------------------------------------------
(* move: the timer callback *)

StoredPose == <<current_angle, current_point>>

\* Lines 135-140: the turning branch.
move_turning ==
    /\ state = "turning"
    /\ cmd_vel' = <<rotate_twist(target_angle, current_angle)>>
    /\ state' = IF turn_converged(angle_error_of(target_angle, current_angle))
                THEN "driving" ELSE "turning"
    /\ tick_pose' = NoMsg
    /\ tick_consistent' = (StoredPose = delivered)
    /\ UNCHANGED <<current_angle, current_point, target_angle, target_point,
                   target_direction, waypt_index, destroyed, pose_target,
                   zero_pubs, pose_pc, pose_msg, move_pc, delivered>>

\* Variant of move_driving_on: the heading and the direction of the target
\* are recomputed from the stored position in every driving tick.
move_driving_on_retarget ==
    /\ state = "driving"
    /\ ~drive_converged(projected_position_error_of(target_point, current_point,
                                                    target_direction))
    /\ LET delta == <<target_point[1] - current_point[1],
                      target_point[2] - current_point[2]>>
       IN  /\ target_angle' = arctan2(delta[2], delta[1])
           /\ target_direction' = Normalize(delta)
           /\ cmd_vel' = <<drive_twist(target_point, current_point,
                                       Normalize(delta))>>
    /\ tick_pose' = NoMsg
    /\ tick_consistent' = (StoredPose = delivered)
    /\ UNCHANGED <<current_angle, current_point, target_point,
                   waypt_index, state, destroyed, pose_target,
                   zero_pubs, pose_pc, pose_msg, move_pc, delivered>>

\* Lines 142-145 with the test of line 145 false: the command is published
\* and nothing else happens.
move_driving_on ==
    /\ state = "driving"
    /\ ~drive_converged(projected_position_error_of(target_point, current_point,
                                                    target_direction))
    /\ cmd_vel' = <<drive_twist(target_point, current_point, target_direction)>>
    /\ tick_pose' = NoMsg
    /\ tick_consistent' = (StoredPose = delivered)
    /\ UNCHANGED <<current_angle, current_point, target_angle, target_point,
                   target_direction, waypt_index, state, destroyed, pose_target,
                   zero_pubs, pose_pc, pose_msg, move_pc, delivered>>

\* Lines 142-148: converged with a waypoint left; the cursor advances and the
\* callback is about to call recalculate_targets.
move_driving_advance ==
    /\ state = "driving"
    /\ drive_converged(projected_position_error_of(target_point, current_point,
                                                   target_direction))
    /\ has_next_waypoint(waypt_index)
    /\ cmd_vel' = <<drive_twist(target_point, current_point, target_direction)>>
    /\ waypt_index' = next_index(waypt_index)
    /\ move_pc' = "l149"
    /\ tick_pose' = StoredPose
    /\ tick_consistent' = (StoredPose = delivered)
    /\ UNCHANGED <<current_angle, current_point, target_angle, target_point,
                   target_direction, state, destroyed, pose_target,
                   zero_pubs, pose_pc, pose_msg, delivered>>

\* Lines 142-146 and 151-157: converged on the last waypoint; a zero Twist is
\* published after the command of drive_to_point and the node is destroyed.
move_driving_finish ==
    /\ state = "driving"
    /\ drive_converged(projected_position_error_of(target_point, current_point,
                                                   target_direction))
    /\ ~has_next_waypoint(waypt_index)
    /\ cmd_vel' = <<drive_twist(target_point, current_point, target_direction),
                    Twist>>
    /\ zero_pubs' = Min(zero_pubs + 1, MaxCount)
    /\ destroyed' = destroy_node
    /\ tick_pose' = NoMsg
    /\ tick_consistent' = (StoredPose = delivered)
    /\ UNCHANGED <<current_angle, current_point, target_angle, target_point,
                   target_direction, waypt_index, state, pose_target,
                   pose_pc, pose_msg, move_pc, delivered>>

move ==
    /\ TimerReady
    /\ CanStart(move_pc, pose_pc)
    /\ \/ move_turning
       \/ move_driving_on
       \/ move_driving_advance
       \/ move_driving_finish

\* Variant of recalculate_targets: line 150 is missing, the state stays
\* driving after the advance.
recalculate_targets_keep_driving ==
    /\ move_pc = "l149"
    /\ LET point == waypoints[waypt_index + 1]
           delta == <<point[1] - current_point[1], point[2] - current_point[2]>>
       IN  /\ target_point' = point
           /\ target_angle' = arctan2(delta[2], delta[1])
           /\ target_direction' = Normalize(delta)
           /\ pose_target' = Append(pose_target,
                  [x |-> point[1], y |-> point[2], z |-> 0,
                   yaw |-> arctan2(delta[2], delta[1])])
    /\ move_pc' = "idle"
    /\ tick_pose' = NoMsg
    /\ tick_consistent' = (tick_consistent /\ StoredPose = tick_pose
                                           /\ StoredPose = delivered)
    /\ UNCHANGED <<current_angle, current_point, waypt_index, destroyed,
                   cmd_vel, zero_pubs, pose_pc, pose_msg, delivered, state>>

\* Lines 159-185, then line 150 of move: the target of the new cursor is
\* resolved against the stored position, announced on /pose_target, and the
\* state becomes turning.
recalculate_targets ==
    /\ move_pc = "l149"
    /\ LET point == waypoints[waypt_index + 1]
           delta == <<point[1] - current_point[1], point[2] - current_point[2]>>
       IN  /\ target_point' = point
           /\ target_angle' = arctan2(delta[2], delta[1])
           /\ target_direction' = Normalize(delta)
           /\ pose_target' = Append(pose_target,
                  [x |-> point[1], y |-> point[2], z |-> 0,
                   yaw |-> arctan2(delta[2], delta[1])])
    /\ state' = "turning"
    /\ move_pc' = "idle"
    /\ tick_pose' = NoMsg
    /\ tick_consistent' = (tick_consistent /\ StoredPose = tick_pose
                                           /\ StoredPose = delivered)
    /\ UNCHANGED <<current_angle, current_point, waypt_index, destroyed,
                   cmd_vel, zero_pubs, pose_pc, pose_msg, delivered>>

----------------------------------------------------------------------------
(* Specification *)

Next ==
    \/ pose_callback_begin
    \/ pose_callback_end
    \/ move
    \/ recalculate_targets

Spec == Init /\ [][Next]_vars

----------------------------------------------------------------------------
(* Properties *)

\* The mission is complete: the driving phase of the last waypoint converged
\* and the node was destroyed.
Done == destroyed

\* The final Twist of the latest tick
LastTwist == cmd_vel[Len(cmd_vel)]

\* The projected position error of the stored pose against the target
ProjectedError ==
    dot(<<target_point[1] - current_point[1],
          target_point[2] - current_point[2]>>, target_direction)

\* C1: the waypoint cursor never decreases, grows by at most one in a step
\* (no index is skipped) and always indexes a waypoint:
\* 0 <= waypt_index < len(waypoints).
C1_MonotonicCursor ==
    /\ [](waypt_index \in 0 .. (Len(waypoints) - 1))
    /\ [][waypt_index' = waypt_index \/ waypt_index' = waypt_index + 1]_vars

\* C1 witness: the cursor has advanced to the last waypoint.
C1_Witness ==
    waypt_index = Len(waypoints) - 1 /\ move_pc = "idle" /\ ~Done

\* C2: once the mission is complete nothing changes any more (no tick
\* publishes a command or changes the state), and the completion zero Twist
\* is published exactly once: never twice, and once when Done.
C2_TerminalStability ==
    /\ [][zero_pubs >= 1 => vars' = vars]_vars
    /\ [](zero_pubs <= 1)
    /\ [](Done <=> zero_pubs = 1)

\* C2 witness: the mission is complete and the zero Twist was published.
C2_Witness ==
    Done /\ zero_pubs = 1 /\ Len(cmd_vel) = 2 /\ LastTwist = Twist

\* C3: a tick in the turning state switches to driving exactly when the
\* heading error of the pose read in the tick is below 0.03 rad in absolute
\* value, strictly: an error of 0.03 stays turning, 0.0299 switches.
C3_StrictHeadingThreshold ==
    [][(move /\ state = "turning") =>
          LET err == target_angle - current_angle
          IN  /\ (state' = "driving") <=> (Abs(err) < 300)
              /\ (Abs(err) = 300 => state' = "turning")
              /\ (Abs(err) = 299 => state' = "driving")
              /\ (Abs(err) >= 300 => state' = "turning")]_vars

\* C3 witness: a turning tick with heading error 0.0299 has switched to
\* driving (it published 0.3 * 0.0299).
C3_Witness ==
    /\ state = "driving"
    /\ target_angle - current_angle = 299
    /\ cmd_vel = <<[linear_x |-> 0, angular_z |-> 3 * 299]>>

\* C4: no NaN direction is ever stored as the active target direction (a
\* zero-length delta is detected instead of being divided by its zero norm).
C4_NoNaNDirection ==
    ~IsNaN(target_direction[1]) /\ ~IsNaN(target_direction[2])

\* C5: outside a running tick, the number of announcements published on
\* /pose_target is the number of targets made active so far, the initial one
\* included: cursor + 1.
C5_AnnouncementPerTarget ==
    move_pc = "idle" => Len(pose_target) = waypt_index + 1

\* C6 as stated: no tick publishes more than one Twist on cmd_vel.
C6_OneCommandPerTick ==
    Len(cmd_vel) <= 1

\* C6 amended: every tick publishes exactly one Twist on cmd_vel, except the
\* driving tick that completes the last waypoint, which publishes exactly
\* two: the command of drive_to_point, then the zero Twist.
C6_CommandsPerTick ==
    [][move =>
          LET completes == /\ state = "driving"
                           /\ waypt_index = 3
                           /\ ~IsNaN(ProjectedError)
                           /\ Abs(ProjectedError) < 30000
          IN  /\ Len(cmd_vel') = IF completes THEN 2 ELSE 1
              /\ completes => cmd_vel'[2] = Twist]_vars

\* C6 witness: the completing tick has published its two Twists.
C6_Witness ==
    Len(cmd_vel) = 2 /\ waypt_index = 3 /\ state = "driving"

\* Headings in (-pi, pi] around the saturation error of 1 rad and the
\* convergence error of 0.03 rad
HeadingSamples ==
    {-31415, -15708, -10001, -10000, -9999, -300, 0, 299, 9999, 10000, 10001,
     15708, 31416}

\* C7: the angular velocity of the heading controller, on every turning tick
\* and for every pair of sampled headings, is at most 0.3 in absolute value,
\* and it is 0.3 only when the proportional term
\* 0.3 * (target_angle - current_angle) is at least 0.3 in absolute value.
C7_ClampedOmega ==
    [][(move /\ state = "turning") =>
          LET err == target_angle - current_angle
              omega == cmd_vel'[1].angular_z
          IN  /\ Abs(omega) <= 30000
              /\ (Abs(omega) = 30000 => Abs(3 * err) >= 30000)
              /\ (Abs(3 * err) < 30000 => omega = 3 * err)]_vars
    /\ [](\A t \in HeadingSamples, c \in HeadingSamples :
            LET omega == rotate_twist(t, c).angular_z
            IN  /\ Abs(omega) <= 30000
                /\ (Abs(omega) = 30000 => Abs(3 * (t - c)) >= 30000))

\* C7 witness: a turning tick has published the saturated command -0.3.
C7_Witness ==
    /\ state = "turning"
    /\ Len(cmd_vel) = 1
    /\ cmd_vel[1].angular_z = -30000
    /\ 3 * (target_angle - current_angle) < -30000

\* C8: every pose read of a tick sees one whole pose: the stored pose is
\* half-applied only while pose_callback runs, no tick runs meanwhile, no
\* pose_callback runs during a tick, and the reads of one tick agree.
C8_ConsistentSnapshot ==
    /\ tick_consistent
    /\ (pose_pc = "idle" => StoredPose = delivered)
    /\ (move_pc # "idle" => pose_pc = "idle" /\ StoredPose = tick_pose)

\* C8 witness: a tick is between its two reads of the pose (line 118 is
\* done, line 165 is to come), after pose updates were received.
C8_Witness ==
    move_pc = "l149" /\ tick_pose = <<15708, <<300, 300>>>> /\ waypt_index = 2

\* C9 as stated: the first target is the point (0.3, 0.3), heading about
\* 0.785 rad, direction about (0.707, 0.707).
C9_FirstTargetAsStated ==
    waypt_index = 0 =>
        /\ target_point = <<300, 300>>
        /\ Abs(target_angle - 7854) <= 10
        /\ Abs(target_direction[1] - 707) <= 1
        /\ Abs(target_direction[2] - 707) <= 1

\* C9 amended: with the waypoints of the node, [(0,0.3),(0.3,0.3),(0.3,0),
\* (0,0)], and the robot at (0,0) with heading 0, the first target is the
\* point (0, 0.3) with heading pi/2 (about 1.571 rad) and direction (0, 1),
\* and a first tick at heading 0 commands the saturated angular velocity 0.3.
C9_FirstTarget ==
    /\ [](waypt_index = 0 =>
            /\ target_point = <<0, 300>>
            /\ target_angle = 15708
            /\ target_direction = <<0, 1000>>)
    /\ [][(move /\ cmd_vel = <<>> /\ current_angle = 0) =>
            cmd_vel' = <<[linear_x |-> 0, angular_z |-> 30000]>>]_vars

\* C9 witness: the first tick has run at heading 0, before any advance.
C9_Witness ==
    /\ waypt_index = 0
    /\ state = "turning"
    /\ StoredPose = <<0, <<0, 0>>>>
    /\ cmd_vel = <<[linear_x |-> 0, angular_z |-> 30000]>>

\* C10: a driving tick with |projected error| < 0.03 either advances the
\* cursor by one, re-resolves the target for the new waypoint and sets the
\* state to turning (cursor not at the last waypoint), or publishes a zero
\* Twist and completes the mission (cursor at the last waypoint); a driving
\* tick with |projected error| >= 0.03 (or NaN) leaves cursor, target and
\* state unchanged; the mission completes only with the cursor at the last
\* waypoint.
C10_DrivingConvergence ==
    /\ [][(move /\ state = "driving") =>
            IF ~IsNaN(ProjectedError) /\ Abs(ProjectedError) < 30000
            THEN \/ /\ waypt_index < 3
                    /\ waypt_index' = waypt_index + 1
                    /\ move_pc' = "l149"
                    /\ ~Done'
                    /\ Len(cmd_vel') = 1
                 \/ /\ waypt_index = 3
                    /\ waypt_index' = waypt_index
                    /\ LastTwist' = Twist
                    /\ Done'
                    /\ UNCHANGED <<target_point, target_angle,
                                   target_direction>>
            ELSE /\ UNCHANGED <<waypt_index, target_point, target_angle,
                                target_direction, state, move_pc>>
                 /\ ~Done']_vars
    /\ [][move_pc = "l149" =>
            /\ move_pc' = "idle"
            /\ state' = "turning"
            /\ waypt_index' = waypt_index
            /\ target_point' = waypoints[waypt_index + 1]
            /\ target_angle' = arctan2(target_point'[2] - current_point[2],
                                       target_point'[1] - current_point[1])
            /\ target_direction' =
                  Normalize(<<target_point'[1] - current_point[1],
                              target_point'[2] - current_point[2]>>)]_vars
    /\ [](Done => waypt_index = Len(waypoints) - 1)

\* C10 witness: the mission has completed after three advances.
C10_Witness ==
    Done /\ Len(pose_target) = 3 /\ waypt_index = 3

\* The active target
Target == <<target_point, target_angle, target_direction>>

\* C11: the active target changes only in the step that re-resolves it, in a
\* tick that advanced the cursor, and once per advance (the re-resolutions,
\* counted by their announcements, are as many as the advances); pose updates
\* and ticks that do not advance the cursor leave it unchanged, and a driving
\* tick projects the position error on the stored direction.
C11_TargetFixedPerLeg ==
    /\ [][Target' # Target => move_pc = "l149" /\ move_pc' = "idle"]_vars
    /\ [][(pose_callback_begin \/ pose_callback_end) => Target' = Target]_vars
    /\ [][(move /\ waypt_index' = waypt_index) => Target' = Target]_vars
    /\ [][waypt_index' # waypt_index =>
            move_pc = "idle" /\ move_pc' = "l149" /\ Target' = Target]_vars
    /\ [](move_pc = "idle" => Len(pose_target) = waypt_index)
    /\ [](move_pc = "l149" => Len(pose_target) + 1 = waypt_index)
    /\ [][(move /\ state = "driving") =>
            cmd_vel'[1].linear_x =
               IF IsNaN(ProjectedError) THEN NaN ELSE 2 * ProjectedError]_vars

\* C11 witness: a driving tick toward waypoint 1 ran with the robot moved
\* off the leg, to (0, 0); the direction is still the one resolved at
\* (0, 0.3), and the projected error is 0.3 m.
C11_Witness ==
    /\ state = "driving"
    /\ waypt_index = 1
    /\ move_pc = "idle"
    /\ current_point = <<0, 0>>
    /\ target_direction = <<1000, 0>>
    /\ cmd_vel = <<[linear_x |-> 600000, angular_z |-> 0]>>

\* C12: a step of pose_callback changes nothing but the stored pose (among
\* control mode, cursor, target, published messages and completion), and the
\* stored pose changes in no other step: a tick never modifies it.
C12_PoseOwnership ==
    /\ [][pose_pc' # pose_pc =>
            UNCHANGED <<state, waypt_index, target_point, target_angle,
                        target_direction, destroyed, cmd_vel, pose_target,
                        zero_pubs, move_pc>>]_vars
    /\ [][StoredPose' # StoredPose => pose_pc' # pose_pc]_vars
    /\ [][(move \/ recalculate_targets) =>
            UNCHANGED <<current_angle, current_point>>]_vars

\* C12 witness: a pose update was stored during the driving phase of
\* waypoint 1 and the target of that phase is as it was resolved.
C12_Witness ==
    /\ pose_pc = "idle"
    /\ move_pc = "idle"
    /\ state = "driving"
    /\ waypt_index = 1
    /\ delivered = <<15708, <<300, 0>>>>
    /\ Target = <<<<300, 300>>, 0, <<1000, 0>>>>

\* The machine is in the phase of control mode s for waypoint i
InPhase(s, i) == ~Done /\ state = s /\ waypt_index = i

\* The error of the active phase, for the stored pose, is below its threshold
PhaseConverged ==
    IF state = "turning" THEN Abs(target_angle - current_angle) < 300
    ELSE ~IsNaN(ProjectedError) /\ Abs(ProjectedError) < 30000

\* C13: there is no timeout. The control mode, the cursor and completion
\* change only in a tick whose phase error is below the threshold (or in the
\* re-resolution that ends such a tick), so a robot that never converges
\* keeps mode and cursor forever; and if every phase is eventually left (a
\* tick below the threshold eventually occurs in each), the mission is
\* eventually Done, with the cursor at the last waypoint in driving mode.
C13_NoTimeout ==
    /\ [][<<state, waypt_index, destroyed>>' # <<state, waypt_index, destroyed>>
            => \/ move_pc = "idle" /\ pose_pc = "idle" /\ PhaseConverged
               \/ move_pc = "l149"]_vars
    /\ (\A s \in {"turning", "driving"} :
           \A i \in 0 .. (Len(waypoints) - 1) : []<>(~InPhase(s, i)))
         => <>(Done /\ state = "driving" /\ waypt_index = Len(waypoints) - 1)

\* C13 witness: the mission is Done at the origin, the last waypoint.
C13_Witness ==
    /\ Done
    /\ state = "driving"
    /\ current_point = <<0, 0>>
    /\ target_point = <<0, 0>>
    /\ waypt_index = Len(waypoints) - 1

\* C14: a degenerate target does not end the progress of the mission: when
\* the stored direction comes from a zero-length delta, some position of the
\* robot still makes the driving phase of that waypoint converge.
C14_DegenerateRecoverable ==
    (IsNaN(target_direction[1]) \/ IsNaN(target_direction[2]))
      => \E position \in Positions :
            drive_converged(projected_position_error_of(
                target_point, position, target_direction))

\* C15: turning and driving alternate per waypoint. The cursor advances and
\* the mission completes only in a driving tick; the state becomes driving
\* only in a turning tick whose heading error against the target of the
\* cursor's waypoint is below 0.03; every advance leaves the state turning,
\* so a turning tick lies between two advances; and outside a running tick
\* the target is the waypoint of the cursor.
C15_Alternation ==
    /\ [][(waypt_index' # waypt_index \/ (Done' /\ ~Done)) =>
            state = "driving" /\ move_pc = "idle" /\ pose_pc = "idle"]_vars
    /\ [][(state # "driving" /\ state' = "driving") =>
            /\ state = "turning"
            /\ move_pc = "idle" /\ pose_pc = "idle"
            /\ Abs(target_angle - current_angle) < 300
            /\ target_point = waypoints[waypt_index + 1]
            /\ Target' = Target
            /\ waypt_index' = waypt_index]_vars
    /\ [][waypt_index' # waypt_index => move_pc' = "l149"]_vars
    /\ [][move_pc = "l149" => state' = "turning" /\ move_pc' = "idle"]_vars
    /\ [](move_pc = "idle" => target_point = waypoints[waypt_index + 1])

\* C15 witness: the driving phase of waypoint 2 was just entered by a
\* turning tick with heading error 0.
C15_Witness ==
    /\ state = "driving"
    /\ waypt_index = 2
    /\ target_angle = current_angle
    /\ target_point = <<300, 0>>
    /\ cmd_vel = <<[linear_x |-> 0, angular_z |-> 0]>>

\* C16: every Twist published by a turning tick has linear velocity zero,
\* every Twist published by a driving tick has angular velocity zero, and no
\* published Twist has both components non-zero.
C16_SingleAxisCommands ==
    /\ [](\A i \in 1 .. Len(cmd_vel) :
            cmd_vel[i].linear_x = 0 \/ cmd_vel[i].angular_z = 0)
    /\ [][(move /\ state = "turning") =>
            \A i \in 1 .. Len(cmd_vel') : cmd_vel'[i].linear_x = 0]_vars
    /\ [][(move /\ state = "driving") =>
            \A i \in 1 .. Len(cmd_vel') : cmd_vel'[i].angular_z = 0]_vars

\* C16 witness: a driving tick toward waypoint 0 has published a non-zero
\* linear velocity (0.2 * 0.3 m) while the heading is off the target heading.
C16_Witness ==
    /\ state = "driving"
    /\ waypt_index = 0
    /\ current_angle # target_angle
    /\ cmd_vel = <<[linear_x |-> 600000, angular_z |-> 0]>>

\* C17: before any tick (no Twist published yet) the machine is turning with
\* cursor 0 and the target of waypoint 0 resolved against the pose held at
\* construction, the origin with heading 0: point (0, 0.3), heading pi/2,
\* direction (0, 1); the pose estimates that arrive before the first tick do
\* not re-resolve it.
C17_InitialTarget ==
    cmd_vel = <<>> =>
        /\ state = "turning"
        /\ waypt_index = 0
        /\ move_pc = "idle"
        /\ ~Done
        /\ target_point = waypoints[1]
        /\ target_angle = arctan2(waypoints[1][2] - 0, waypoints[1][1] - 0)
        /\ target_direction = <<0, 1000>>
        /\ target_angle = 15708

\* C17 witness: a pose estimate away from the origin has been stored before
\* the first tick.
C17_Witness ==
    /\ cmd_vel = <<>>
    /\ pose_pc = "idle"
    /\ StoredPose = <<15708, <<300, 300>>>>

\* C18: the heading controller uses the raw difference target_angle -
\* current_angle, not wrapped to the shortest angle: its magnitude goes up to
\* 2 pi for headings in (-pi, pi], the command of a turning tick is 0.3 times
\* the raw difference clamped to [-0.3, 0.3], with the sign of the raw
\* difference, and the tick switches to driving only when the raw difference
\* is below 0.03 in absolute value.
C18_UnwrappedHeadingError ==
    /\ [](Abs(target_angle - current_angle) <= 62832)
    /\ [][(move /\ state = "turning") =>
            LET raw == target_angle - current_angle
                omega == cmd_vel'[1].angular_z
            IN  /\ omega = IF 3 * raw > 30000 THEN 30000
                           ELSE IF 3 * raw < -30000 THEN -30000
                           ELSE 3 * raw
                /\ (raw > 0 => omega > 0) /\ (raw < 0 => omega < 0)
                /\ (state' = "driving") <=> (Abs(raw) < 300)]_vars

\* C18 witness: target heading pi and current heading -pi + 0.0001 are
\* 0.0001 rad apart on the circle, yet the raw difference is about 2 pi: the
\* tick commanded +0.3 and the machine is still turning.
C18_Witness ==
    /\ state = "turning"
    /\ target_angle = 31416
    /\ current_angle = -31415
    /\ cmd_vel = <<[linear_x |-> 0, angular_z |-> 30000]>>

====
